---- MODULE Spec2Model ----
(***************************************************************************)
(* Model of the retrieval subsystem of MCP-powered-Agentic-RAG:            *)
(* tools/chromadb_tool.py (class ChromaTool) on top of the persistent      *)
(* vector index it drives.  Python strings are TLA+ strings, Python lists  *)
(* are sequences, an Optional argument is <<>> (None) or <<v>>, a dict is  *)
(* a set of <<key, value>> pairs.                                          *)
(***************************************************************************)
EXTENDS Integers, Sequences, FiniteSets, TLC

\* ------------------------------------------------------------------ bounds
MaxBatch == 2
MaxN == 3

\* ------------------------------------------------------- program constants
ExcerptLimit == 500
RuleWidth == 50

\* ----------------------------------------------------------- Python values
\* c * n on strings (halving keeps the evaluation shallow).
RECURSIVE Rep(_, _)
Rep(c, n) ==
    IF n <= 0 THEN ""
    ELSE IF n = 1 THEN c
    ELSE LET h == Rep(c, n \div 2)
         IN  IF n % 2 = 0 THEN h \o h ELSE h \o h \o c

None == <<>>
Some(v) == <<v>>

\* "not x" for an Optional list argument: None and [] are both falsy.
Falsy(opt) == opt = None \/ Len(opt[1]) = 0

\* A metadata value as the index returns it: a dict (its items) or None.
Dict(items) == [py |-> "dict", items |-> items]
PyNone == [py |-> "None", items |-> {}]

\* truthiness of a metadata value: None and {} are falsy
Truthy(m) == m.py = "dict" /\ m.items # {}

\* d.get(key, default)
DictGet(d, key, default) ==
    IF \E p \in d.items : p[1] = key
    THEN (CHOOSE p \in d.items : p[1] = key)[2]
    ELSE default

\* ------------------------------------------------------------------ inputs
T500 == Rep("a", ExcerptLimit)
T501 == Rep("b", ExcerptLimit + 1)
Texts == {T500, T501}
Queries == {T500, "cherry"}
ExplicitIds == {"doc_0", "doc_1"}
MetaSource == Dict({<<"source", "test">>})
MetaNoSource == Dict({<<"type", "guide">>})
MetaEmpty == Dict({})
Tools == {"vector_store"}
\* the two ChromaTool objects a server process holds on the same directory
Handles == {"vector_store", "agent"}
\* what the embedding provider, the index or the storage may do to a call
ProviderFaults == {"none", "embedding", "index"}
StorageFaults == {"none", "storage"}

DocumentArgs == UNION {[1..k -> Texts] : k \in 0..MaxBatch}

\* ids: omitted, one id per document, or a list one short of the documents.
IdArgs(k) ==
    {None} \cup {Some(s) : s \in [1..k -> ExplicitIds]}
           \cup (IF k >= 1 THEN {Some([i \in 1..(k - 1) |-> "doc_1"])} ELSE {})

\* metadata: omitted, one entry per document (all alike, or the last one an
\* empty dict), or a list one short of the documents.
MetadataArgs(k) ==
    {None} \cup {Some([i \in 1..k |-> m]) : m \in {MetaSource, MetaNoSource, PyNone}}
           \cup (IF k >= 1
                 THEN {Some([i \in 1..k |-> IF i = k THEN MetaEmpty ELSE MetaSource]),
                       Some([i \in 1..(k - 1) |-> MetaSource])}
                 ELSE {})

\* ------------------------------------------------------------------- state
VARIABLES
    collection,   \* the persisted collection "documents": exists, records
    handle,       \* per tool: state of self.collection ("none","live","stale")
    lastWrite,    \* the most recent completed state-changing call
    last          \* the call that has just returned, or Idle

vars == <<collection, handle, lastWrite, last>>

Idle == [op |-> "idle"]
Missing == [exists |-> FALSE, records |-> {}]
Empty == [exists |-> TRUE, records |-> {}]

StoredIds(records) == {r.id : r \in records}

\* ------------------------------------------------ embedding provider, index
\* the tokenizer of all-MiniLM-L6-v2 is uncased: a capital letter is read as
\* its small letter
LowerChar(c) ==
    LET capitals == "ABCDEFGHIJKLMNOPQRSTUVWXYZ"
        smalls   == "abcdefghijklmnopqrstuvwxyz"
    IN  IF \E i \in 1..Len(capitals) : SubSeq(capitals, i, i) = c
        THEN LET i == CHOOSE j \in 1..Len(capitals) : SubSeq(capitals, j, j) = c
             IN  SubSeq(smalls, i, i)
        ELSE c

\* all-MiniLM-L6-v2 returns unit vectors (coordinates in thousandths here).
\* It is uncased and reads a bounded prefix of its input, so texts that differ
\* only in letter case, or only behind that prefix, get the same vector; here
\* the prefix is the first character. What is kept of the embedding: it is a
\* function of the text, so equal texts are always embedded alike; different
\* texts may be embedded alike too, and are whenever they differ in letter
\* case only.
Embed(text) ==
    IF Len(text) = 0 THEN <<800, 600>>
    ELSE LET c == LowerChar(SubSeq(text, 1, 1))
         IN  IF c = "a" THEN <<1000, 0>>
             ELSE IF c = "b" THEN <<600, 800>>
             ELSE IF c = "t" THEN <<960, 280>>
             ELSE IF c = "v" THEN <<352, 936>>
             ELSE IF c = "r" THEN <<936, 352>>
             ELSE IF c = "o" THEN <<-800, 600>>
             ELSE <<0, 1000>>

\* Mutant of Distance: the similarity is handed out as the distance.
Distance_AsSimilarity(q, d) ==
    LET u == Embed(q)
        v == Embed(d)
    IN  (u[1] * v[1] + u[2] * v[2]) \div 1000

\* cosine distance of two unit vectors, in thousandths ("hnsw:space": "cosine")
Distance(q, d) ==
    LET u == Embed(q)
        v == Embed(d)
    IN  (1000000 - (u[1] * v[1] + u[2] * v[2])) \div 1000

\* ---------------------------------------------------------- vector index
\* What chromadb's validation of add() rejects before anything is embedded or
\* written: no ids, lists of different lengths, an id repeated in the call,
\* an empty metadata dict.
InvalidAdd(documents, ids, metadatas) ==
    \/ Len(ids) = 0
    \/ Len(ids) # Len(documents)
    \/ Len(metadatas) # Len(documents)
    \/ \E i, j \in 1..Len(ids) : i < j /\ ids[i] = ids[j]
    \/ \E i \in 1..Len(metadatas) : metadatas[i] = MetaEmpty

Failure(kind, records) == [status |-> "error", error |-> kind, records |-> records]

\* Mutant of collection_add: a record whose id is already stored is written
\* again beside the stored one.
collection_add_NoExistingCheck(records, live, documents, ids, metadatas, fault) ==
    IF InvalidAdd(documents, ids, metadatas) THEN Failure("ValueError", records)
    ELSE IF fault = "embedding" THEN Failure("EmbeddingError", records)
    ELSE IF ~live THEN Failure("NotFoundError", records)
    ELSE IF fault = "index" THEN Failure("IndexWriteError", records)
    ELSE [status |-> "ok", error |-> "",
          records |-> records \cup
              {[id |-> ids[i], document |-> documents[i], metadata |-> metadatas[i]] :
                  i \in 1..Len(ids)}]

\* Mutant of collection_add: a record whose id is already stored is replaced
\* by the new one (upsert).
collection_add_Upsert(records, live, documents, ids, metadatas, fault) ==
    IF InvalidAdd(documents, ids, metadatas) THEN Failure("ValueError", records)
    ELSE IF fault = "embedding" THEN Failure("EmbeddingError", records)
    ELSE IF ~live THEN Failure("NotFoundError", records)
    ELSE IF fault = "index" THEN Failure("IndexWriteError", records)
    ELSE [status |-> "ok", error |-> "",
          records |-> {r \in records : \A i \in 1..Len(ids) : r.id # ids[i]} \cup
              {[id |-> ids[i], document |-> documents[i], metadata |-> metadatas[i]] :
                  i \in 1..Len(ids)}]

\* self.collection.add(documents=, ids=, metadatas=): one validated, embedded
\* and written batch; a record whose id is already stored is left as it is.
collection_add(records, live, documents, ids, metadatas, fault) ==
    IF InvalidAdd(documents, ids, metadatas) THEN Failure("ValueError", records)
    ELSE IF fault = "embedding" THEN Failure("EmbeddingError", records)
    ELSE IF ~live THEN Failure("NotFoundError", records)
    ELSE IF fault = "index" THEN Failure("IndexWriteError", records)
    ELSE [status |-> "ok", error |-> "",
          records |-> records \cup
              {[id |-> ids[i], document |-> documents[i], metadata |-> metadatas[i]] :
                  i \in {j \in 1..Len(ids) : ids[j] \notin StoredIds(records)}}]

Min(a, b) == IF a <= b THEN a ELSE b

\* Mutant of Rankings: the nearest records in whatever order they are stored.
Rankings_Unsorted(records, query, n) ==
    LET m == Min(n, Cardinality(records))
    IN  {s \in [1..m -> records] :
            /\ \A i, j \in 1..m : i < j => s[i] # s[j]
            /\ \A r \in records : (\A i \in 1..m : s[i] # r) =>
                   \A i \in 1..m : Distance(query, s[i].document) <= Distance(query, r.document)}

\* The nearest-neighbour answers the index may give: the min(n, count) records
\* closest to the query, nearest first; records at equal distance in any order.
Rankings(records, query, n) ==
    LET m == Min(n, Cardinality(records))
    IN  {s \in [1..m -> records] :
            /\ \A i, j \in 1..m : i < j =>
                   /\ s[i] # s[j]
                   /\ Distance(query, s[i].document) <= Distance(query, s[j].document)
            /\ \A r \in records : (\A i \in 1..m : s[i] # r) =>
                   \A i \in 1..m : Distance(query, s[i].document) <= Distance(query, r.document)}

\* self.collection.query(query_texts=[query], n_results=n): one inner list per
\* query text.
QueryResult(query, s) ==
    [documents |-> <<[i \in 1..Len(s) |-> s[i].document]>>,
     ids       |-> <<[i \in 1..Len(s) |-> s[i].id]>>,
     distances |-> <<[i \in 1..Len(s) |-> Distance(query, s[i].document)]>>,
     metadatas |-> <<[i \in 1..Len(s) |-> s[i].metadata]>>]

collection_query(records, live, query, n, fault) ==
    IF n <= 0 THEN {[status |-> "error", error |-> "ValueError"]}
    ELSE IF fault = "embedding" THEN {[status |-> "error", error |-> "EmbeddingError"]}
    ELSE IF ~live THEN {[status |-> "error", error |-> "NotFoundError"]}
    ELSE IF fault = "index" THEN {[status |-> "error", error |-> "IndexQueryError"]}
    ELSE {[status |-> "ok", error |-> "", results |-> QueryResult(query, s)] :
              s \in Rankings(records, query, n)}

\* self.collection.count()
collection_count(records, live, fault) ==
    IF ~live THEN [status |-> "error", error |-> "NotFoundError"]
    ELSE IF fault = "index" THEN [status |-> "error", error |-> "StorageError"]
    ELSE [status |-> "ok", error |-> "", count |-> Cardinality(records)]

\* ------------------------------------------------------------- ChromaTool
Live(t) == handle[t] = "live"

\* Mutant of EffectiveIds: generated ids go on from the number of stored
\* documents, so that successive calls never name the same id.
EffectiveIds_Global(documents, ids) ==
    IF Falsy(ids)
    THEN [i \in 1..Len(documents) |->
             "doc_" \o ToString(Cardinality(collection.records) + i - 1)]
    ELSE ids[1]

\* Mutant of EffectiveIds: generated ids count from 1.
EffectiveIds_OneBased(documents, ids) ==
    IF Falsy(ids)
    THEN [i \in 1..Len(documents) |-> "doc_" \o ToString(i)]
    ELSE ids[1]

\* ids = [f"doc_{i}" for i in range(len(documents))] when ids is falsy
EffectiveIds(documents, ids) ==
    IF Falsy(ids)
    THEN [i \in 1..Len(documents) |-> "doc_" \o ToString(i - 1)]
    ELSE ids[1]

\* Mutant of EffectiveMetadata: the default source is spelled as the
\* formatter's default.
EffectiveMetadata_Capitalized(documents, metadata) ==
    IF Falsy(metadata)
    THEN [i \in 1..Len(documents) |-> Dict({<<"source", "Unknown">>})]
    ELSE metadata[1]

\* metadata = [{"source": "unknown"} for _ in documents] when metadata is falsy
EffectiveMetadata(documents, metadata) ==
    IF Falsy(metadata)
    THEN [i \in 1..Len(documents) |-> Dict({<<"source", "unknown">>})]
    ELSE metadata[1]

\* the dict search() builds from the index's answer
SearchValue(results) ==
    [documents |-> IF Len(results.documents) > 0 THEN results.documents[1] ELSE <<>>,
     ids       |-> IF Len(results.ids) > 0 THEN results.ids[1] ELSE <<>>,
     distances |-> IF Len(results.distances) > 0 THEN results.distances[1] ELSE <<>>,
     metadatas |-> IF Len(results.metadatas) > 0 THEN results.metadatas[1] ELSE <<>>]

NoDocuments == "No documents found matching the query."

\* Mutant of FormatBlock: a document of exactly 500 characters is cut too.
FormatBlock_InclusiveLimit(i, doc, meta) ==
    "\n[Document " \o ToString(i) \o "]\n"
    \o (IF Len(doc) >= ExcerptLimit
        THEN "Content: " \o SubSeq(doc, 1, ExcerptLimit) \o "...\n"
        ELSE "Content: " \o doc \o "\n")
    \o (IF Truthy(meta)
        THEN "Source: " \o DictGet(meta, "source", "Unknown") \o "\n"
        ELSE "")

\* one pass of the loop of search_formatted
FormatBlock(i, doc, meta) ==
    "\n[Document " \o ToString(i) \o "]\n"
    \o (IF Len(doc) > ExcerptLimit
        THEN "Content: " \o SubSeq(doc, 1, ExcerptLimit) \o "...\n"
        ELSE "Content: " \o doc \o "\n")
    \o (IF Truthy(meta)
        THEN "Source: " \o DictGet(meta, "source", "Unknown") \o "\n"
        ELSE "")

\* the blocks of the first k pairs of zip(documents, metadatas)
RECURSIVE FormatBlocks(_, _, _)
FormatBlocks(documents, metadatas, k) ==
    IF k = 0 THEN ""
    ELSE FormatBlocks(documents, metadatas, k - 1)
         \o FormatBlock(k, documents[k], metadatas[k])

\* Mutant of Formatted: no early return for an empty result.
Formatted_NoSentinel(results) ==
    "Retrieved Documents:\n" \o Rep("-", RuleWidth) \o "\n"
    \o FormatBlocks(results.documents, results.metadatas,
                    Min(Len(results.documents), Len(results.metadatas)))

\* the string search_formatted builds from search()'s dict
Formatted(results) ==
    IF Len(results.documents) = 0 THEN NoDocuments
    ELSE "Retrieved Documents:\n" \o Rep("-", RuleWidth) \o "\n"
         \o FormatBlocks(results.documents, results.metadatas,
                         Min(Len(results.documents), Len(results.metadatas)))

\* Mutant of AddDocumentsOutcome: one add per document, so the documents ahead
\* of a failing entry are already written when the call fails.
AddDocumentsOutcome_PerDocument(records, live, documents, ids, metadata, fault) ==
    LET eids  == EffectiveIds(documents, ids)
        emeta == EffectiveMetadata(documents, metadata)
        all   == collection_add(records, live, documents, eids, emeta, fault)
    IN  IF all.status = "ok" \/ Len(documents) = 0 \/ Len(eids) = 0 \/ Len(emeta) = 0
        THEN all
        ELSE [all EXCEPT !.records =
                 collection_add(records, live, <<documents[1]>>, <<eids[1]>>,
                                <<emeta[1]>>, fault).records]

\* what add_documents hands to the index, and the index's answer
AddDocumentsOutcome(records, live, documents, ids, metadata, fault) ==
    collection_add(records, live, documents,
                   EffectiveIds(documents, ids),
                   EffectiveMetadata(documents, metadata), fault)

\* Mutant of SearchOutcomes: an empty answer of the index is raised as an error.
SearchOutcomes_FailOnEmpty(records, live, query, n, fault) ==
    {IF r.status = "ok" /\ Len(SearchValue(r.results).documents) > 0
     THEN [status |-> "ok", error |-> "", value |-> SearchValue(r.results)]
     ELSE [status |-> "error",
           error |-> IF r.status = "ok" THEN "IndexError" ELSE r.error] :
         r \in collection_query(records, live, query, n, fault)}

\* Mutant of SearchOutcomes: a failure of the index is answered with an empty
\* result.
SearchOutcomes_SwallowErrors(records, live, query, n, fault) ==
    {IF r.status = "ok"
     THEN [status |-> "ok", error |-> "", value |-> SearchValue(r.results)]
     ELSE [status |-> "ok", error |-> "",
           value |-> [documents |-> <<>>, ids |-> <<>>,
                      distances |-> <<>>, metadatas |-> <<>>]] :
         r \in collection_query(records, live, query, n, fault)}

\* the outcomes of search(): the dict it returns, or the index's error
SearchOutcomes(records, live, query, n, fault) ==
    {IF r.status = "ok"
     THEN [status |-> "ok", error |-> "", value |-> SearchValue(r.results)]
     ELSE r : r \in collection_query(records, live, query, n, fault)}

\* Mutant of OpenedCollection: the collection is created anew on every start.
OpenedCollection_Recreate(coll) == Empty

\* self.client.get_or_create_collection(name=collection_name, ...)
OpenedCollection(coll) == IF coll.exists THEN coll ELSE Empty

\* A provider fault is drawn only for a call that reaches the provider.
AddFaults(documents, ids, metadata) ==
    IF InvalidAdd(documents, EffectiveIds(documents, ids),
                  EffectiveMetadata(documents, metadata))
    THEN {"none"}
    ELSE ProviderFaults

\* ----------------------------------------------------------------- actions
Init ==
    /\ collection = Empty
    /\ handle = [t \in Handles |-> IF t \in Tools THEN "live" ELSE "none"]
    /\ lastWrite = "__init__"
    /\ last = Idle

\* ChromaTool(persist_dir): makedirs, PersistentClient, get_or_create_collection
ChromaTool_init(t, fault) ==
    /\ last = Idle
    /\ IF fault = "none"
       THEN /\ collection' = OpenedCollection(collection)
            /\ handle' = [handle EXCEPT ![t] = "live"]
            /\ lastWrite' = IF collection.exists THEN lastWrite ELSE "__init__"
            /\ last' = [op |-> "__init__", tool |-> t, fault |-> fault,
                        status |-> "ok", error |-> "", before |-> collection]
       ELSE /\ UNCHANGED <<collection, handle, lastWrite>>
            /\ last' = [op |-> "__init__", tool |-> t, fault |-> fault,
                        status |-> "error", error |-> "StorageInitError",
                        before |-> collection]

add_documents(t, documents, ids, metadata, fault) ==
    /\ last = Idle
    /\ handle[t] # "none"
    /\ LET out == AddDocumentsOutcome(collection.records, Live(t),
                                      documents, ids, metadata, fault)
       IN  /\ collection' = [collection EXCEPT !.records = out.records]
           /\ lastWrite' = IF out.status = "ok" THEN "add_documents" ELSE lastWrite
           /\ last' = [op |-> "add_documents", tool |-> t, documents |-> documents,
                       ids |-> ids, metadata |-> metadata, fault |-> fault,
                       status |-> out.status, error |-> out.error,
                       before |-> collection]
    /\ UNCHANGED handle

search(t, query, n, fault) ==
    /\ last = Idle
    /\ handle[t] # "none"
    /\ \E out \in SearchOutcomes(collection.records, Live(t), query, n, fault) :
           last' = IF out.status = "ok"
                   THEN [op |-> "search", tool |-> t, query |-> query, n |-> n,
                         fault |-> fault, status |-> "ok", error |-> "",
                         value |-> out.value]
                   ELSE [op |-> "search", tool |-> t, query |-> query, n |-> n,
                         fault |-> fault, status |-> "error", error |-> out.error]
    /\ UNCHANGED <<collection, handle, lastWrite>>

search_formatted(t, query, n, fault) ==
    /\ last = Idle
    /\ handle[t] # "none"
    /\ \E out \in SearchOutcomes(collection.records, Live(t), query, n, fault) :
           last' = IF out.status = "ok"
                   THEN [op |-> "search_formatted", tool |-> t, query |-> query,
                         n |-> n, fault |-> fault, status |-> "ok", error |-> "",
                         results |-> out.value, value |-> Formatted(out.value)]
                   ELSE [op |-> "search_formatted", tool |-> t, query |-> query,
                         n |-> n, fault |-> fault, status |-> "error",
                         error |-> out.error]
    /\ UNCHANGED <<collection, handle, lastWrite>>

\* self.client.delete_collection(name=self.collection_name); self.collection
\* is not renewed, so every handle on the collection now names a deleted one.
delete_collection(t, fault) ==
    /\ last = Idle
    /\ handle[t] # "none"
    /\ IF fault # "none" \/ ~collection.exists
       THEN /\ UNCHANGED <<collection, handle, lastWrite>>
            /\ last' = [op |-> "delete_collection", tool |-> t, fault |-> fault,
                        status |-> "error",
                        error |-> IF fault # "none" THEN "StorageError"
                                  ELSE "NotFoundError",
                        before |-> collection]
       ELSE /\ collection' = Missing
            /\ handle' = [u \in Handles |->
                             IF handle[u] = "live" THEN "stale" ELSE handle[u]]
            /\ lastWrite' = "delete_collection"
            /\ last' = [op |-> "delete_collection", tool |-> t, fault |-> fault,
                        status |-> "ok", error |-> "", before |-> collection]

get_collection_stats(t, fault) ==
    /\ last = Idle
    /\ handle[t] # "none"
    /\ LET out == collection_count(collection.records, Live(t), fault)
       IN  last' = IF out.status = "ok"
                   THEN [op |-> "get_collection_stats", tool |-> t, fault |-> fault,
                         status |-> "ok", error |-> "",
                         value |-> [collection_name |-> "documents",
                                    document_count |-> out.count,
                                    persist_dir |-> "./vector_store"]]
                   ELSE [op |-> "get_collection_stats", tool |-> t, fault |-> fault,
                         status |-> "error", error |-> out.error]
    /\ UNCHANGED <<collection, handle, lastWrite>>

\* the caller has taken the result; the next call may start
Return ==
    /\ last # Idle
    /\ last' = Idle
    /\ UNCHANGED <<collection, handle, lastWrite>>

Next ==
    \/ \E t \in Tools, fault \in StorageFaults : ChromaTool_init(t, fault)
    \/ \E t \in Tools, documents \in DocumentArgs :
          \E ids \in IdArgs(Len(documents)),
             metadata \in MetadataArgs(Len(documents)) :
                \E fault \in AddFaults(documents, ids, metadata) :
                    add_documents(t, documents, ids, metadata, fault)
    \/ \E t \in Tools, query \in Queries, n \in 0..MaxN, fault \in ProviderFaults :
          search(t, query, n, fault)
    \/ \E t \in Tools, query \in Queries, n \in 0..MaxN, fault \in ProviderFaults :
          search_formatted(t, query, n, fault)
    \/ \E t \in Tools, fault \in StorageFaults : delete_collection(t, fault)
    \/ \E t \in Tools, fault \in {"none", "index"} : get_collection_stats(t, fault)
    \/ Return

Spec == Init /\ [][Next]_vars

\* ------------------------------------------- round trip of a stored text
\* One tool, documents added one at a time under an explicit id with the
\* metadata of test_document_operations, and searches whose query is the exact
\* text of a document. TestDocument is the text the test adds;
\* TestDocumentUncased differs from it in letter case only: another text, for
\* the uncased embedding function the same vector.
TestDocument == "Test document for validation"

TestDocumentUncased == "test document for validation"

RoundTripTexts == {TestDocument, TestDocumentUncased, "cherry"}

NextRoundTrip ==
    \/ \E t \in Tools : ChromaTool_init(t, "none")
    \/ \E t \in Tools, text \in RoundTripTexts, id \in ExplicitIds :
           add_documents(t, <<text>>, Some(<<id>>), Some(<<MetaSource>>), "none")
    \/ \E t \in Tools, query \in RoundTripTexts, n \in 1..MaxN,
          fault \in {"none", "index"} :
           search(t, query, n, fault)
    \/ \E t \in Tools : delete_collection(t, "none")
    \/ Return

SpecRoundTrip == Init /\ [][NextRoundTrip]_vars

\* ------------------------------------ two tools on the same directory
\* A process that holds two ChromaTool objects on "./vector_store": the one it
\* writes through (vector_store) and the one its agent reads through (agent).
Writer == "vector_store"
Reader == "agent"

\* a metadata whose source is longer than any excerpt
MetaLongSource == Dict({<<"source", Rep("s", 2 * ExcerptLimit)>>})

SharedDocumentArgs == [1..1 -> Texts]
SharedIdArgs       == {None, Some(<<"doc_1">>)}
SharedMetadataArgs == {None, Some(<<MetaLongSource>>)}

InitShared ==
    /\ collection = Empty
    /\ handle = [t \in Handles |-> "live"]
    /\ lastWrite = "__init__"
    /\ last = Idle

NextShared ==
    \/ \E t \in Handles : ChromaTool_init(t, "none")
    \/ \E documents \in SharedDocumentArgs, ids \in SharedIdArgs,
          metadata \in SharedMetadataArgs :
           add_documents(Writer, documents, ids, metadata, "none")
    \/ delete_collection(Writer, "none")
    \/ \E query \in Queries, n \in 1..MaxN :
           search_formatted(Reader, query, n, "none")
    \/ \E fault \in {"none", "index"} : get_collection_stats(Reader, fault)
    \/ Return

SpecShared == InitShared /\ [][NextShared]_vars

\* ------------------------------------------------------------- RAGAgent
\* sample_docs, ids and metadata of load_sample_documents
SampleDocs ==
    << "Artificial Intelligence is revolutionizing many industries by enabling machines to learn from data and make intelligent decisions without explicit programming.",
       "The Model Context Protocol (MCP) enables modular tool use for AI agents by providing a standardized way to connect language models to external services.",
       "Vector databases like ChromaDB store embeddings of text, enabling fast semantic similarity search and retrieval of relevant documents.",
       "Retrieval-Augmented Generation (RAG) combines the benefits of retrieval and generation, allowing AI systems to ground their responses in factual, retrieved content.",
       "Ollama provides a simple way to run large language models locally, supporting models like Mistral, Llama, and others without requiring expensive cloud infrastructure." >>

SampleIds == [i \in 1..Len(SampleDocs) |-> "sample_doc_" \o ToString(i - 1)]

SampleMetadata ==
    [i \in 1..Len(SampleDocs) |->
        Dict({<<"source", "sample">>, <<"type", "general_info">>})]

\* what the language model server does with a request
LlmBehaviours == {"answer", "connection", "other"}

\* Mutant of call_ollama: only the connection failure is caught, any other
\* exception leaves the method.
call_ollama_OnlyConnectionCaught(prompt, llm) ==
    IF llm = "answer"
    THEN [status |-> "ok", error |-> "", value |-> "An answer."]
    ELSE IF llm = "connection"
    THEN [status |-> "ok", error |-> "",
          value |-> "Error: Unable to connect to Ollama server. Make sure it's running."]
    ELSE [status |-> "error", error |-> "500 Server Error"]

\* _call_ollama(prompt): the stripped "response" of the server's answer, or,
\* from the two except clauses, one of two error texts
call_ollama(prompt, llm) ==
    IF llm = "answer"
    THEN [status |-> "ok", error |-> "", value |-> "An answer."]
    ELSE IF llm = "connection"
    THEN [status |-> "ok", error |-> "",
          value |-> "Error: Unable to connect to Ollama server. Make sure it's running."]
    ELSE [status |-> "ok", error |-> "",
          value |-> "Error calling Ollama: " \o "500 Server Error"]

\* Mutant of build_prompt: the context is left out of the template.
build_prompt_NoContext(query, context) ==
    "You are a helpful AI assistant. Use the provided context to answer the user's question accurately and concisely.\n"
    \o "\nUser Question: " \o query \o "\n"
    \o "\nPlease provide a clear and informative answer based on the context provided. If the context doesn't contain relevant information, say so and provide your best response based on your knowledge."

build_prompt(query, context) ==
    "You are a helpful AI assistant. Use the provided context to answer the user's question accurately and concisely.\n"
    \o "\nContext Information:\n" \o context \o "\n"
    \o "\nUser Question: " \o query \o "\n"
    \o "\nPlease provide a clear and informative answer based on the context provided. If the context doesn't contain relevant information, say so and provide your best response based on your knowledge."

\* one call of a core operation as a handler sees it
Call(op, out) == [op |-> op, status |-> out.status, error |-> out.error]

\* the end of get_response: the prompt goes to the language model and the
\* result dict is built; calls are the core calls made so far
Answered(query, use_context, calls, docs, context, prompt, llm) ==
    LET r == call_ollama(prompt, llm)
    IN  IF r.status = "error"
        THEN [status |-> "error", error |-> r.error,
              calls |-> Append(calls, Call("_call_ollama", r)),
              context |-> context, prompt |-> prompt]
        ELSE [status |-> "ok", error |-> "", calls |-> calls,
              context |-> context, prompt |-> prompt,
              value |-> [query |-> query, response |-> r.value,
                         retrieved_documents |-> docs,
                         context_used |-> use_context,
                         model |-> "mistral"]]

\* get_response(query, use_context, n_results): with use_context the store
\* is searched twice, by search() and by search_formatted(); either search
\* may raise, and the exception leaves get_response
GetResponseOutcomes(records, live, query, use_context, n, fault1, fault2, llm) ==
    IF ~use_context
    THEN {Answered(query, FALSE, <<>>, <<>>, "", query, llm)}
    ELSE UNION {
           IF s1.status = "error"
           THEN {[status |-> "error", error |-> s1.error,
                  calls |-> <<Call("search", s1)>>]}
           ELSE {IF s2.status = "error"
                 THEN [status |-> "error", error |-> s2.error,
                       calls |-> <<Call("search", s1), Call("search_formatted", s2)>>]
                 ELSE Answered(query, TRUE,
                               <<Call("search", s1), Call("search_formatted", s2)>>,
                               s1.value.documents, Formatted(s2.value),
                               build_prompt(query, Formatted(s2.value)), llm) :
                    s2 \in SearchOutcomes(records, live, query, n, fault2)} :
             s1 \in SearchOutcomes(records, live, query, n, fault1)}

\* ---------------------- get_response beside another client of the store
\* The agent reads through its own tool while another client writes to the
\* same collection through another one. get_response is taken in its two
\* steps, the search() of line 124 and the search_formatted() of line 126, and
\* the other client's calls may fall between them.
InterleavedAdds ==
    {[documents |-> <<T500>>, ids |-> None],
     [documents |-> <<T501>>, ids |-> Some(<<"doc_1">>)]}

InterleavedMetadataArgs == {None, Some(<<MetaSource>>)}

\* search_results = self.vector_store.search(query, n_results)
get_response_search(query, n) ==
    /\ last = Idle
    /\ handle[Reader] # "none"
    /\ \E s1 \in SearchOutcomes(collection.records, Live(Reader), query, n, "none") :
           last' = IF s1.status = "error"
                   THEN [op |-> "get_response", stage |-> "done", query |-> query,
                         n |-> n, interleaved |-> FALSE,
                         status |-> "error", error |-> s1.error]
                   ELSE [op |-> "get_response", stage |-> "searched", query |-> query,
                         n |-> n, interleaved |-> FALSE,
                         retrieved |-> s1.value.documents]
    /\ UNCHANGED <<collection, handle, lastWrite>>

\* add_documents of the other client, between the agent's two searches
other_add_documents(documents, ids, metadata) ==
    /\ last.op = "get_response"
    /\ last.stage = "searched"
    /\ LET out == AddDocumentsOutcome(collection.records, Live(Writer),
                                      documents, ids, metadata, "none")
       IN  /\ collection' = [collection EXCEPT !.records = out.records]
           /\ lastWrite' = IF out.status = "ok" THEN "add_documents" ELSE lastWrite
    /\ last' = [last EXCEPT !.interleaved = TRUE]
    /\ UNCHANGED handle

\* delete_collection of the other client, between the agent's two searches
other_delete_collection ==
    /\ last.op = "get_response"
    /\ last.stage = "searched"
    /\ collection.exists
    /\ collection' = Missing
    /\ handle' = [u \in Handles |-> IF handle[u] = "live" THEN "stale" ELSE handle[u]]
    /\ lastWrite' = "delete_collection"
    /\ last' = [last EXCEPT !.interleaved = TRUE]

\* context = self.vector_store.search_formatted(query, n_results), then the
\* prompt, the language model and the result dict
get_response_answer(llm) ==
    /\ last.op = "get_response"
    /\ last.stage = "searched"
    /\ \E s2 \in SearchOutcomes(collection.records, Live(Reader),
                                last.query, last.n, "none") :
           last' = IF s2.status = "error"
                   THEN [op |-> "get_response", stage |-> "done",
                         query |-> last.query, n |-> last.n,
                         interleaved |-> last.interleaved,
                         status |-> "error", error |-> s2.error]
                   ELSE LET a == Answered(last.query, TRUE, <<>>, last.retrieved,
                                          Formatted(s2.value),
                                          build_prompt(last.query, Formatted(s2.value)),
                                          llm)
                        IN  [op |-> "get_response", stage |-> "done",
                             query |-> last.query, n |-> last.n,
                             interleaved |-> last.interleaved,
                             status |-> a.status, error |-> a.error,
                             value |-> a.value, context |-> a.context,
                             prompt |-> a.prompt]
    /\ UNCHANGED <<collection, handle, lastWrite>>

NextInterleaved ==
    \/ \E t \in Handles : ChromaTool_init(t, "none")
    \/ \E a \in InterleavedAdds, metadata \in InterleavedMetadataArgs :
           add_documents(Writer, a.documents, a.ids, metadata, "none")
    \/ delete_collection(Writer, "none")
    \/ \E query \in Queries, n \in 1..MaxN : get_response_search(query, n)
    \/ \E a \in InterleavedAdds, metadata \in InterleavedMetadataArgs :
           other_add_documents(a.documents, a.ids, metadata)
    \/ other_delete_collection
    \/ \E llm \in LlmBehaviours : get_response_answer(llm)
    \/ /\ ~(last.op = "get_response" /\ last.stage = "searched")
       /\ Return

SpecInterleaved == InitShared /\ [][NextInterleaved]_vars

\* ---------------------------------------------------------- HTTP server
\* the tools behind the module globals of main.py
VectorStore == "vector_store"
Agent       == "agent"

\* the step of startup_event that raises, if any
StartupFailures == {"none", "vector_store", "agent", "stats", "samples"}

ServerDocumentArgs == {<<>>, <<T501>>}
ServerIdArgs       == {None, Some(<<"doc_1">>)}

\* Mutant of Respond: a failure of the core is logged and the request is
\* answered as a success.
Respond_SuccessAfterFailure(op, initialized, notReady, calls, body) ==
    IF ~initialized
    THEN [op |-> op, code |-> 503, detail |-> notReady, calls |-> <<>>]
    ELSE [op |-> op, code |-> 200, body |-> body, calls |-> calls]

\* the shape of every handler but /health: 503 while the global it uses is
\* None, 500 with str(e) when a core call raised, the body otherwise
Respond(op, initialized, notReady, calls, body) ==
    IF ~initialized
    THEN [op |-> op, code |-> 503, detail |-> notReady, calls |-> <<>>]
    ELSE IF \E i \in 1..Len(calls) : calls[i].status = "error"
    THEN [op |-> op, code |-> 500, calls |-> calls,
          detail |-> calls[CHOOSE i \in 1..Len(calls) : calls[i].status = "error"].error]
    ELSE [op |-> op, code |-> 200, body |-> body, calls |-> calls]

\* the state the module is imported in: both globals None, a fresh directory
InitServer ==
    /\ collection = Missing
    /\ handle = [t \in Handles |-> "none"]
    /\ lastWrite = "none"
    /\ last = Idle

\* startup_event: two tools on "./vector_store", then the samples when the
\* collection is empty; an exception ends the process with what was done
startup_event(fail) ==
    /\ last = Idle
    /\ \A t \in Handles : handle[t] = "none"
    /\ LET opened == OpenedCollection(collection)
           loaded == AddDocumentsOutcome(opened.records, TRUE, SampleDocs,
                                         Some(SampleIds), Some(SampleMetadata),
                                         IF fail = "samples" THEN "embedding" ELSE "none")
           empty  == collection_count(opened.records, TRUE, "none").count = 0
       IN  /\ fail = "samples" => empty
           /\ collection' = IF fail = "vector_store" THEN collection
                            ELSE IF fail = "none" /\ empty
                            THEN [opened EXCEPT !.records = loaded.records]
                            ELSE opened
           /\ handle' = [t \in Handles |->
                            IF fail = "vector_store" THEN "none"
                            ELSE IF fail = "agent" /\ t = Agent THEN "none"
                            ELSE "live"]
           /\ lastWrite' = IF fail = "none" /\ empty THEN "add_documents"
                           ELSE IF fail # "vector_store" /\ ~collection.exists
                           THEN "__init__"
                           ELSE lastWrite
           /\ last' = [op |-> "startup_event", fail |-> fail,
                       status |-> IF fail = "none" THEN "ok" ELSE "error",
                       error |-> IF fail = "none" THEN ""
                                 ELSE IF fail \in {"vector_store", "agent"}
                                 THEN "StorageInitError"
                                 ELSE IF fail = "stats" THEN "StorageError"
                                 ELSE loaded.error,
                       before |-> collection]

\* uvicorn.run returns: the process ends, the directory stays
shutdown ==
    /\ last = Idle
    /\ \A t \in Handles : handle[t] # "none"
    /\ handle' = [t \in Handles |-> "none"]
    /\ UNCHANGED <<collection, lastWrite, last>>

\* GET /health: no try/except, a failing count is answered by the framework
health_check(fault) ==
    /\ last = Idle
    /\ LET out == collection_count(collection.records, Live(VectorStore), fault)
       IN  last' = IF handle[Agent] = "none" \/ handle[VectorStore] = "none"
                   THEN [op |-> "health_check", code |-> 503,
                         detail |-> "Service not initialized", calls |-> <<>>]
                   ELSE IF out.status = "error"
                   THEN [op |-> "health_check", code |-> 500,
                         detail |-> "Internal Server Error",
                         calls |-> <<Call("get_collection_stats", out)>>]
                   ELSE [op |-> "health_check", code |-> 200,
                         calls |-> <<Call("get_collection_stats", out)>>,
                         body |-> [status |-> "healthy",
                                   vector_store_documents |-> out.count]]
    /\ UNCHANGED <<collection, handle, lastWrite>>

\* POST /query
query_agent(query, use_context, n, fault1, fault2, llm) ==
    /\ last = Idle
    /\ \E out \in IF handle[Agent] = "none" THEN {[status |-> "none"]}
                  ELSE GetResponseOutcomes(collection.records, Live(Agent), query,
                                           use_context, n, fault1, fault2, llm) :
           last' = Respond("query_agent", handle[Agent] # "none",
                           "Agent not initialized",
                           IF out.status = "none" THEN <<>> ELSE out.calls,
                           IF out.status = "ok" THEN out.value ELSE <<>>)
                   @@ [request |-> [query |-> query, use_context |-> use_context,
                                    n_results |-> n],
                       llm |-> llm,
                       sent |-> IF out.status = "ok"
                                THEN <<[context |-> out.context, prompt |-> out.prompt]>>
                                ELSE <<>>]
    /\ UNCHANGED <<collection, handle, lastWrite>>

\* POST /search
search_documents(query, n, fault) ==
    /\ last = Idle
    /\ \E out \in IF handle[VectorStore] = "none" THEN {[status |-> "none"]}
                  ELSE SearchOutcomes(collection.records, Live(VectorStore),
                                      query, n, fault) :
           last' = Respond("search_documents", handle[VectorStore] # "none",
                           "Vector store not initialized",
                           IF out.status = "none" THEN <<>> ELSE <<Call("search", out)>>,
                           IF out.status = "ok"
                           THEN [query |-> query, results |-> out.value,
                                 count |-> Len(out.value.documents)]
                           ELSE <<>>)
    /\ UNCHANGED <<collection, handle, lastWrite>>

\* POST /documents (add_documents of main.py): the tool's add_documents, then
\* get_collection_stats for total_documents, both inside the try
main_add_documents(documents, ids, metadata, fault, statsFault) ==
    /\ last = Idle
    /\ LET ready == handle[VectorStore] # "none"
           added == AddDocumentsOutcome(collection.records, Live(VectorStore),
                                        documents, ids, metadata, fault)
           stats == collection_count(added.records, Live(VectorStore), statsFault)
           calls == IF added.status = "error"
                    THEN <<Call("add_documents", added)>>
                    ELSE <<Call("add_documents", added),
                           Call("get_collection_stats", stats)>>
       IN  /\ collection' = IF ready
                            THEN [collection EXCEPT !.records = added.records]
                            ELSE collection
           /\ lastWrite' = IF ready /\ added.status = "ok"
                           THEN "add_documents" ELSE lastWrite
           /\ last' = Respond("main_add_documents", ready,
                              "Vector store not initialized",
                              IF ready THEN calls ELSE <<>>,
                              IF added.status = "ok" /\ stats.status = "ok"
                              THEN [status |-> "success",
                                    documents_added |-> Len(documents),
                                    total_documents |-> stats.count]
                              ELSE <<>>)
    /\ UNCHANGED handle

\* GET /stats
get_stats(fault) ==
    /\ last = Idle
    /\ LET out == collection_count(collection.records, Live(VectorStore), fault)
       IN  last' = Respond("get_stats", handle[VectorStore] # "none",
                           "Vector store not initialized",
                           <<Call("get_collection_stats", out)>>,
                           IF out.status = "ok"
                           THEN [vector_store |->
                                     [collection_name |-> "documents",
                                      document_count |-> out.count,
                                      persist_dir |-> "./vector_store"],
                                 agent_config |->
                                     IF handle[Agent] # "none"
                                     THEN [model |-> "mistral"]
                                     ELSE [model |-> "unknown"]]
                           ELSE <<>>)
    /\ UNCHANGED <<collection, handle, lastWrite>>

\* DELETE /documents
clear_documents(fault) ==
    /\ last = Idle
    /\ LET ready == handle[VectorStore] # "none"
           out   == IF fault # "none"
                    THEN [status |-> "error", error |-> "StorageError"]
                    ELSE IF ~collection.exists
                    THEN [status |-> "error", error |-> "NotFoundError"]
                    ELSE [status |-> "ok", error |-> ""]
           done  == ready /\ out.status = "ok"
       IN  /\ collection' = IF done THEN Missing ELSE collection
           /\ handle' = IF done
                        THEN [u \in Handles |->
                                 IF handle[u] = "live" THEN "stale" ELSE handle[u]]
                        ELSE handle
           /\ lastWrite' = IF done THEN "delete_collection" ELSE lastWrite
           /\ last' = Respond("clear_documents", ready,
                              "Vector store not initialized",
                              <<Call("delete_collection", out)>>,
                              [status |-> "success",
                               message |-> "All documents cleared"])

NextServer ==
    \/ \E fail \in StartupFailures : startup_event(fail)
    \/ shutdown
    \/ \E fault \in {"none", "index"} : health_check(fault)
    \/ \E query \in Queries, use_context \in BOOLEAN, n \in 0..MaxN,
          fault1 \in ProviderFaults, fault2 \in {"none", "index"},
          llm \in LlmBehaviours :
           query_agent(query, use_context, n, fault1, fault2, llm)
    \/ \E query \in Queries, n \in 0..MaxN, fault \in ProviderFaults :
           search_documents(query, n, fault)
    \/ \E documents \in ServerDocumentArgs, ids \in ServerIdArgs,
          fault \in ProviderFaults, statsFault \in {"none", "index"} :
           main_add_documents(documents, ids, None, fault, statsFault)
    \/ \E fault \in {"none", "index"} : get_stats(fault)
    \/ \E fault \in StorageFaults : clear_documents(fault)
    \/ /\ ~(last.op = "startup_event" /\ last.status = "error")
       /\ Return

SpecServer == InitServer /\ [][NextServer]_vars

\* ------------------------------------------------- observations for claims
\* document_count as get_collection_stats would report it now through tool t
DocumentCount(t) == collection_count(collection.records, Live(t), "none")

\* the ids a call names, as the contract states them: the given ids, or
\* doc_0 .. doc_(len-1) by position when none are given
CallIds(l) ==
    IF l.ids # None /\ Len(l.ids[1]) > 0
    THEN l.ids[1]
    ELSE [i \in 1..Len(l.documents) |-> "doc_" \o ToString(i - 1)]

FreshIds(l) ==
    /\ Len(CallIds(l)) = Len(l.documents)
    /\ \A i, j \in 1..Len(CallIds(l)) : i # j => CallIds(l)[i] # CallIds(l)[j]
    /\ \A i \in 1..Len(CallIds(l)) : CallIds(l)[i] \notin StoredIds(l.before.records)

\* positions of the line feeds of a string
LineFeeds(s) == {p \in 1..Len(s) : SubSeq(s, p, p) = "\n"}

\* the lines of s that start with prefix, in order, each without the prefix
LinesAfter(s, prefix) ==
    LET ends   == LineFeeds(s) \cup {Len(s) + 1}
        starts == {b \in {p + 1 : p \in LineFeeds(s) \cup {0}} :
                      /\ b + Len(prefix) - 1 <= Len(s)
                      /\ SubSeq(s, b, b + Len(prefix) - 1) = prefix}
        Nth(j) == CHOOSE b \in starts : Cardinality({c \in starts : c < b}) = j - 1
        EndOf(b) == CHOOSE q \in ends : q >= b /\ \A r \in ends : r >= b => q <= r
    IN  [j \in 1..Cardinality(starts) |->
            SubSeq(s, Nth(j) + Len(prefix), EndOf(Nth(j)) - 1)]

\* the lines of a string, in order (a final line feed leaves a last empty line)
Lines(s) ==
    LET feeds  == LineFeeds(s)
        k      == Cardinality(feeds)
        Feed(j) == IF j = 0 THEN 0
                   ELSE IF j = k + 1 THEN Len(s) + 1
                   ELSE CHOOSE p \in feeds : Cardinality({q \in feeds : q < p}) = j - 1
    IN  [j \in 1..(k + 1) |-> SubSeq(s, Feed(j - 1) + 1, Feed(j) - 1)]

StartsWith(line, prefix) ==
    /\ Len(line) >= Len(prefix)
    /\ SubSeq(line, 1, Len(prefix)) = prefix

\* the result blocks read back from a rendered string: a block starts at a
\* line "[Document <number>]" and runs to the next such line; source is the
\* text of its "Source: " line, or None when the block has no such line
Blocks(s) ==
    LET L      == Lines(s)
        heads  == {j \in 1..Len(L) : StartsWith(L[j], "[Document ")}
        Head_(b) == CHOOSE h \in heads : Cardinality({g \in heads : g < h}) = b - 1
        End_(b)  == IF b = Cardinality(heads) THEN Len(L) ELSE Head_(b + 1) - 1
        Src(b)   == {j \in (Head_(b) + 1)..End_(b) : StartsWith(L[j], "Source: ")}
    IN  [b \in 1..Cardinality(heads) |->
            [number |-> SubSeq(L[Head_(b)], Len("[Document ") + 1, Len(L[Head_(b)]) - 1),
             closed |-> SubSeq(L[Head_(b)], Len(L[Head_(b)]), Len(L[Head_(b)])) = "]",
             source |-> IF Src(b) = {} THEN None
                        ELSE LET j == CHOOSE x \in Src(b) : \A y \in Src(b) : x <= y
                             IN  Some(SubSeq(L[j], Len("Source: ") + 1, Len(L[j])))]]

\* t occurs in s
Contains(s, t) ==
    \E p \in 1..(Len(s) - Len(t) + 1) : SubSeq(s, p, p + Len(t) - 1) = t

\* ------------------------------------------------------------------ claims

\* C1: a successful add_documents of a non-empty list whose ids are all fresh
\* (none stored before the call, none repeated in the call) raises the
\* document_count reported by get_collection_stats by exactly len(documents).
C1_AddRaisesCountByLen ==
    (/\ last.op = "add_documents"
     /\ last.status = "ok"
     /\ Len(last.documents) > 0
     /\ FreshIds(last))
    => /\ DocumentCount(last.tool).status = "ok"
       /\ DocumentCount(last.tool).count
              = Cardinality(last.before.records) + Len(last.documents)

C1_Witness ==
    /\ last.op = "add_documents"
    /\ last.status = "ok"
    /\ Len(last.documents) = 1
    /\ FreshIds(last)
    /\ Cardinality(last.before.records) = 1
    /\ Cardinality(collection.records) = 2

\* C2 (as claimed): a get_collection_stats call that follows a completed
\* delete_collection on the same store reports document_count = 0.
C2_StatsAfterDeleteIsZero ==
    (/\ last.op = "get_collection_stats"
     /\ last.fault = "none"
     /\ lastWrite = "delete_collection")
    => /\ last.status = "ok"
       /\ last.value.document_count = 0

\* C3 (as claimed): delete_collection called again on a store whose collection
\* is already deleted succeeds and leaves no documents and no collection.
C3_DeleteIsIdempotent ==
    (/\ last.op = "delete_collection"
     /\ last.fault = "none"
     /\ lastWrite = "delete_collection"
     /\ ~last.before.exists)
    => /\ last.status = "ok"
       /\ collection = Missing

\* C4: an add_documents call that fails (embedding failure, index write
\* failure, or one bad entry in the batch) stores none of its documents: the
\* collection and its document count are what they were before the call.
C4_FailedAddStoresNothing ==
    (last.op = "add_documents" /\ last.status = "error")
    => /\ collection = last.before
       /\ Cardinality(collection.records) = Cardinality(last.before.records)

C4_Witness ==
    /\ last.op = "add_documents"
    /\ last.status = "error"
    /\ Len(last.documents) = 2
    /\ FreshIds(last)
    /\ last.metadata # None
    /\ Len(last.metadata[1]) = 2
    /\ last.metadata[1][1] = MetaSource
    /\ last.metadata[1][2] = MetaEmpty

\* C5: no two documents stored in the collection have the same id, whatever
\* adds (reused ids, ids repeated in one call, ids omitted again and again)
\* and deletes have run.
C5_IdsUnique ==
    \A r1, r2 \in collection.records : r1.id = r2.id => r1 = r2

C5_Witness ==
    /\ last.op = "add_documents"
    /\ last.status = "ok"
    /\ last.ids = None
    /\ \E i \in 1..Len(CallIds(last)) :
           /\ CallIds(last)[i] \in StoredIds(last.before.records)
           /\ \E r \in last.before.records :
                  r.id = CallIds(last)[i] /\ r.document # last.documents[i]
    /\ Cardinality(collection.records) = 2

\* C6: search(q, n) with n >= 1 on a collection that holds zero documents
\* returns empty documents, ids, distances and metadatas lists and raises
\* nothing.
C6_SearchOnEmptyIsEmpty ==
    (/\ last.op = "search"
     /\ last.n >= 1
     /\ last.fault = "none"
     /\ Live(last.tool)
     /\ collection.exists
     /\ collection.records = {})
    => /\ last.status = "ok"
       /\ last.value.documents = <<>>
       /\ last.value.ids = <<>>
       /\ last.value.distances = <<>>
       /\ last.value.metadatas = <<>>

C6_Witness ==
    /\ last.op = "search"
    /\ last.n = MaxN
    /\ last.status = "ok"
    /\ collection.exists
    /\ collection.records = {}
    /\ last.value.documents = <<>>

\* C7: for every n >= 1 and every state of the collection, search(q, n)
\* returns at most min(n, document_count) documents; asking for more than is
\* stored truncates to the stored documents and raises nothing.
C7_SearchAtMostMin ==
    (/\ last.op = "search"
     /\ last.n >= 1
     /\ last.fault = "none")
    => /\ last.status = "ok"
       /\ Len(last.value.documents)
              <= Min(last.n, Cardinality(collection.records))

\* C8: the lists search returns are ordered by non-decreasing distance and
\* aligned: entry i of documents, ids, distances and metadatas describes one
\* stored document, at its distance from the query.
C8_SearchSortedAligned ==
    (last.op = "search" /\ last.status = "ok")
    => LET v == last.value
       IN  /\ Len(v.ids) = Len(v.documents)
           /\ Len(v.distances) = Len(v.documents)
           /\ Len(v.metadatas) = Len(v.documents)
           /\ \A i, j \in 1..Len(v.distances) :
                  i < j => v.distances[i] <= v.distances[j]
           /\ \A i \in 1..Len(v.documents) :
                  /\ v.distances[i] = Distance(last.query, v.documents[i])
                  /\ \E r \in collection.records :
                         /\ r.id = v.ids[i]
                         /\ r.document = v.documents[i]
                         /\ r.metadata = v.metadatas[i]

C8_Witness ==
    /\ last.op = "search"
    /\ last.status = "ok"
    /\ Len(last.value.documents) = 2
    /\ last.value.distances[1] < last.value.distances[2]
    /\ last.value.ids[1] # last.value.ids[2]
    /\ last.value.metadatas[1] # last.value.metadatas[2]

\* C9: search_formatted on an empty collection returns, as a normal value,
\* exactly the string "No documents found matching the query.".
C9_SentinelOnEmpty ==
    (/\ last.op = "search_formatted"
     /\ last.n >= 1
     /\ last.fault = "none"
     /\ Live(last.tool)
     /\ collection.records = {})
    => /\ last.status = "ok"
       /\ last.results.documents = <<>>
       /\ last.value = "No documents found matching the query."

C9_Witness ==
    /\ last.op = "search_formatted"
    /\ last.status = "ok"
    /\ collection.records = {}
    /\ last.value = "No documents found matching the query."

\* the excerpt the contract asks for
C10_Excerpt(doc) ==
    IF Len(doc) > 500 THEN SubSeq(doc, 1, 500) \o "..." ELSE doc

\* C10: the excerpt search_formatted writes after "Content: " is, for each
\* returned document in order, its first 500 characters followed by "..." when
\* it is longer than 500 characters, and the whole document with no suffix
\* when it has at most 500.
C10_ExcerptTruncation ==
    (/\ last.op = "search_formatted"
     /\ last.status = "ok"
     /\ Len(last.results.documents) > 0)
    => LinesAfter(last.value, "Content: ")
           = [i \in 1..Len(last.results.documents) |->
                 C10_Excerpt(last.results.documents[i])]

C10_Witness ==
    /\ last.op = "search_formatted"
    /\ last.status = "ok"
    /\ Len(last.results.documents) = 2
    /\ \E i, j \in 1..2 :
           /\ Len(last.results.documents[i]) = 500
           /\ Len(last.results.documents[j]) = 501
    /\ Len(LinesAfter(last.value, "Content: ")) = 2
    /\ \E i, j \in 1..2 :
           /\ Len(LinesAfter(last.value, "Content: ")[i]) = 500
           /\ Len(LinesAfter(last.value, "Content: ")[j]) = 503

\* the source value the contract asks a block to show for a stored metadata
C12_Source(meta) ==
    IF meta.py = "dict" THEN DictGet(meta, "source", "Unknown") ELSE "Unknown"

\* C12: for a non-empty result search_formatted renders the header, then one
\* block per result in rank order, numbered 1..k, and every block has a Source
\* line showing the source key of the result's metadata, or "Unknown" when the
\* metadata has no source key or is absent or empty.
C12_EveryBlockHasSource ==
    (/\ last.op = "search_formatted"
     /\ last.status = "ok"
     /\ Len(last.results.documents) > 0)
    => /\ Lines(last.value)[1] = "Retrieved Documents:"
       /\ Lines(last.value)[2] = Rep("-", 50)
       /\ Len(Blocks(last.value)) = Len(last.results.documents)
       /\ \A b \in 1..Len(Blocks(last.value)) :
              /\ Blocks(last.value)[b].number = ToString(b)
              /\ Blocks(last.value)[b].closed
              /\ b <= Len(last.results.metadatas)
                     => Blocks(last.value)[b].source
                            = Some(C12_Source(last.results.metadatas[b]))

\* C13: when add_documents is called with metadata omitted every document the
\* call stores carries the metadata {source: "unknown"}; search_formatted
\* renders such a result with the line "Source: unknown", and renders a result
\* whose metadata was given without a source key with "Source: Unknown".
C13_DefaultSourceSpelling ==
    /\ (/\ last.op = "add_documents"
        /\ last.status = "ok"
        /\ last.metadata = None)
       => \A i \in 1..Len(last.documents) :
              CallIds(last)[i] \notin StoredIds(last.before.records)
              => [id |-> CallIds(last)[i], document |-> last.documents[i],
                  metadata |-> [py |-> "dict", items |-> {<<"source", "unknown">>}]]
                     \in collection.records
    /\ (/\ last.op = "search_formatted"
        /\ last.status = "ok"
        /\ Len(last.results.documents) > 0)
       => /\ Len(Blocks(last.value)) = Len(last.results.metadatas)
          /\ \A b \in 1..Len(last.results.metadatas) :
              LET meta == last.results.metadatas[b]
              IN  /\ meta = [py |-> "dict", items |-> {<<"source", "unknown">>}]
                        => Blocks(last.value)[b].source = Some("unknown")
                  /\ (/\ meta.py = "dict"
                      /\ meta.items # {}
                      /\ \A kv \in meta.items : kv[1] # "source")
                        => Blocks(last.value)[b].source = Some("Unknown")

C13_Witness ==
    /\ last.op = "search_formatted"
    /\ last.status = "ok"
    /\ lastWrite = "add_documents"
    /\ Len(last.results.metadatas) = 2
    /\ \E b, c \in 1..2 :
           /\ last.results.metadatas[b] = [py |-> "dict", items |-> {<<"source", "unknown">>}]
           /\ Blocks(last.value)[b].source = Some("unknown")
           /\ last.results.metadatas[c] = [py |-> "dict", items |-> {<<"type", "guide">>}]
           /\ Blocks(last.value)[c].source = Some("Unknown")

\* the id the contract gives the document at position i of a call without ids
C14_Id(i) == "doc_" \o ToString(i - 1)

\* C14: when ids are omitted the documents of the call are named doc_0 ..
\* doc_(len-1) by position, the numbering starting again with every call: a
\* call without ids that follows another one names the same ids for its first
\* documents, and those documents collide with the stored ones (the stored
\* records stay, no new record is written for them).
C14_GeneratedIdsPerCall ==
    (/\ last.op = "add_documents"
     /\ last.status = "ok"
     /\ last.ids = None)
    => /\ StoredIds(collection.records)
              = StoredIds(last.before.records)
                    \cup {C14_Id(i) : i \in 1..Len(last.documents)}
       /\ \A i \in 1..Len(last.documents) :
              IF C14_Id(i) \in StoredIds(last.before.records)
              THEN \E r \in last.before.records :
                       r.id = C14_Id(i) /\ r \in collection.records
              ELSE \E r \in collection.records :
                       r.id = C14_Id(i) /\ r.document = last.documents[i]

C14_Witness ==
    /\ last.op = "add_documents"
    /\ last.status = "ok"
    /\ last.ids = None
    /\ lastWrite = "add_documents"
    /\ Len(last.documents) = 2
    /\ StoredIds(last.before.records) = {"doc_0", "doc_1"}
    /\ \A r \in last.before.records : r.document # last.documents[1]
    /\ collection.records = last.before.records

\* C15: add_documents refuses, with an invalid-argument failure and storing
\* nothing, an empty documents list, an ids list whose length differs from
\* len(documents) and a metadata list whose length differs from
\* len(documents).
C15_InvalidArgumentsRejected ==
    (/\ last.op = "add_documents"
     /\ \/ Len(last.documents) = 0
        \/ last.ids # None /\ Len(last.ids[1]) # Len(last.documents)
        \/ last.metadata # None /\ Len(last.metadata[1]) # Len(last.documents))
    => /\ last.status = "error"
       /\ last.error = "ValueError"
       /\ collection = last.before

\* C16: constructing a ChromaTool is idempotent and the collection persists:
\* on a location that already holds the collection it opens that state, with
\* the same documents and count and never emptied or created again; on a fresh
\* location it yields an empty collection; constructing a second time leaves
\* what the first construction left.
C16_InitKeepsCollection ==
    (/\ last.op = "__init__"
     /\ last.status = "ok")
    => /\ Live(last.tool)
       /\ collection.exists
       /\ collection.records = last.before.records
       /\ Cardinality(collection.records) = Cardinality(last.before.records)
       /\ last.before.exists => collection = last.before
       /\ ~last.before.exists => collection.records = {}

C16_Witness ==
    /\ last.op = "__init__"
    /\ last.status = "ok"
    /\ last.before.exists
    /\ Cardinality(last.before.records) = 2
    /\ collection = last.before

\* C20: a failure of the embedding provider, of the vector index or of the
\* storage layer inside add_documents, search, search_formatted,
\* delete_collection or get_collection_stats reaches the caller as a failure of
\* the call, with the provider's error; a call returns successfully only when
\* nothing failed, and an empty successful search comes only from an empty
\* collection.
C20_FailuresSurface ==
    (last.op \in {"add_documents", "search", "search_formatted",
                  "delete_collection", "get_collection_stats"})
    => /\ last.fault # "none" => last.status = "error" /\ last.error # ""
       /\ last.status = "ok" => last.fault = "none"
       /\ (last.op = "search" /\ last.status = "ok"
               /\ Len(last.value.documents) = 0)
              => collection.records = {}
       /\ (last.op = "search_formatted" /\ last.status = "ok"
               /\ last.value = "No documents found matching the query.")
              => collection.records = {}

C20_Witness ==
    /\ last.op = "search"
    /\ last.fault = "index"
    /\ last.status = "error"
    /\ last.error = "IndexQueryError"
    /\ collection.records # {}

\* the stored records whose text is exactly the query of the last call
C18_SameText == {r \in collection.records : r.document = last.query}

\* The round trip as first stated: once a document is stored, a search whose
\* query is its exact text returns its id among the top results, at position
\* 1 when n_results = 1 and no other stored document has that text; an add
\* with explicit fresh ids and metadata and a search with n_results = 1 both
\* succeed.
C18_RoundTrip ==
    /\ (last.op = "search" /\ last.status = "ok")
       => \A r \in C18_SameText :
              /\ Cardinality(C18_SameText) <= last.n
                     => \E i \in 1..Cardinality(C18_SameText) : last.value.ids[i] = r.id
              /\ (last.n = 1 /\ C18_SameText = {r})
                     => last.value.ids = <<r.id>> /\ last.value.documents = <<last.query>>
    /\ (/\ last.op = "search"
        /\ last.n = 1
        /\ last.fault = "none"
        /\ Live(last.tool))
       => last.status = "ok"
    /\ (/\ last.op = "add_documents"
        /\ last.ids # None
        /\ last.metadata # None
        /\ Len(last.documents) > 0
        /\ Len(last.ids[1]) = Len(last.documents)
        /\ Len(last.metadata[1]) = Len(last.documents)
        /\ \A i \in 1..Len(last.metadata[1]) :
               last.metadata[1][i] = [py |-> "dict", items |-> {<<"source", "test">>}]
        /\ FreshIds(last)
        /\ last.fault = "none"
        /\ Live(last.tool))
       => /\ last.status = "ok"
          /\ \A i \in 1..Len(last.documents) :
                 [id |-> last.ids[1][i], document |-> last.documents[i],
                  metadata |-> last.metadata[1][i]] \in collection.records

\* the stored records the embedding function gives the vector of the query
C18_SameVector ==
    {r \in collection.records : Embed(r.document) = Embed(last.query)}

\* C18: round trip: once a document is stored, a search whose query is its
\* exact text returns its id within the first c results, c being the number
\* of stored documents embedded to the vector of the query, whenever
\* c <= n_results; so at position 1 when n_results = 1 and no other stored
\* document is embedded to that vector (another text is not enough: a text
\* differing only in letter case has the same vector). An add with explicit
\* fresh ids and metadata and a search with n_results = 1 both succeed.
C18_RoundTripUpToEmbedding ==
    /\ (last.op = "search" /\ last.status = "ok")
       => \A r \in C18_SameText :
              /\ Cardinality(C18_SameVector) <= last.n
                     => \E i \in 1..Cardinality(C18_SameVector) : last.value.ids[i] = r.id
              /\ (last.n = 1 /\ C18_SameVector = {r})
                     => last.value.ids = <<r.id>> /\ last.value.documents = <<last.query>>
    /\ (/\ last.op = "search"
        /\ last.n = 1
        /\ last.fault = "none"
        /\ Live(last.tool))
       => last.status = "ok"
    /\ (/\ last.op = "add_documents"
        /\ last.ids # None
        /\ last.metadata # None
        /\ Len(last.documents) > 0
        /\ Len(last.ids[1]) = Len(last.documents)
        /\ Len(last.metadata[1]) = Len(last.documents)
        /\ \A i \in 1..Len(last.metadata[1]) :
               last.metadata[1][i] = [py |-> "dict", items |-> {<<"source", "test">>}]
        /\ FreshIds(last)
        /\ last.fault = "none"
        /\ Live(last.tool))
       => /\ last.status = "ok"
          /\ \A i \in 1..Len(last.documents) :
                 [id |-> last.ids[1][i], document |-> last.documents[i],
                  metadata |-> last.metadata[1][i]] \in collection.records

C18_Witness ==
    /\ last.op = "search"
    /\ last.status = "ok"
    /\ last.n = 1
    /\ last.query = TestDocument
    /\ lastWrite = "add_documents"
    /\ Cardinality(collection.records) = 2
    /\ \E r \in collection.records :
           /\ C18_SameText = {r}
           /\ C18_SameVector = {r}
           /\ r.id = "doc_1"
           /\ r.metadata = [py |-> "dict", items |-> {<<"source", "test">>}]
           /\ last.value.ids = <<"doc_1">>

\* C11: the string search_formatted returns is never longer than n_results
\* times 500 characters plus a fixed overhead per result (the block's head,
\* labels, ellipsis and line ends, with room for the default source) and per
\* call (the header), whatever texts and metadata values are stored.
C11_LengthBounded ==
    (last.op = "search_formatted" /\ last.status = "ok")
    => LET perCall   == Len("Retrieved Documents:\n") + 50 + Len("\n")
           perResult == Len("\n[Document 1]\n") + Len("Content: ") + Len("...\n")
                        + Len("Source: ") + Len("Unknown") + Len("\n")
       IN  Len(last.value) <= last.n * 500 + last.n * perResult + perCall

\* C17: whenever get_collection_stats is called and the store answers, it
\* returns a document_count equal to the number of documents in the backing
\* collection at that moment, also after adds and deletes made through
\* another tool on the same directory.
C17_StatsExact ==
    (last.op = "get_collection_stats" /\ last.fault = "none")
    => /\ last.status = "ok"
       /\ last.value.document_count = Cardinality(collection.records)

\* the handlers the failure mapping is stated for
C19_Handlers == {"query_agent", "search_documents", "main_add_documents",
                 "get_stats", "clear_documents"}

\* C19: on POST and DELETE /documents, /search, /stats and /query every
\* failure of a core operation the request invoked is answered with HTTP 500
\* carrying the error's message, every request received while the store or
\* the agent is not initialized is answered with HTTP 503, and no request is
\* answered with success after a core operation failed.
C19_HttpFailureMapping ==
    (last.op \in C19_Handlers)
    => /\ last.code \in {200, 500, 503}
       /\ (\E t \in Handles : handle[t] = "none") => last.code = 503
       /\ \A i \in 1..Len(last.calls) :
              last.calls[i].status = "error"
              => last.code = 500 /\ last.detail = last.calls[i].error
       /\ last.code = 200
              => /\ \A i \in 1..Len(last.calls) : last.calls[i].status = "ok"
                 /\ \A t \in Handles : handle[t] # "none"

C19_Witness ==
    /\ last.op = "main_add_documents"
    /\ last.code = 500
    /\ Len(last.calls) = 2
    /\ last.calls[1] = [op |-> "add_documents", status |-> "ok", error |-> ""]
    /\ last.calls[2] = [op |-> "get_collection_stats", status |-> "error",
                        error |-> "StorageError"]
    /\ last.detail = "StorageError"
    /\ Cardinality(collection.records) = Len(SampleDocs) + 1

\* C21: stored documents are immutable and leave only with the whole
\* collection: search, search_formatted and get_collection_stats leave the
\* stored (id, text, metadata) entries as they are, add_documents never
\* changes the text or metadata of an id that was stored before, and no
\* operation but a successful delete_collection removes a document.
C21_StoredDocumentsImmutable ==
    [][/\ last'.op \in {"search", "search_formatted", "get_collection_stats"}
              => collection' = collection
       /\ ~(last'.op = "delete_collection" /\ last'.status = "ok")
              => collection.records \subseteq collection'.records
       /\ \A r \in collection.records, q \in collection'.records :
              q.id = r.id => q = r]_vars

C21_Witness ==
    /\ last.op = "add_documents"
    /\ last.status = "ok"
    /\ Len(last.documents) = 2
    /\ last.ids = Some(<<"doc_0", "doc_1">>)
    /\ StoredIds(last.before.records) = {"doc_0"}
    /\ \A r \in last.before.records :
           /\ r.document # last.documents[1]
           /\ r \in collection.records
    /\ Cardinality(collection.records) = 2

\* C22: get_response with use_context false searches nothing, sends the raw
\* query as the prompt and returns retrieved_documents [] and context_used
\* false; with use_context true it returns context_used true and the prompt
\* sent to the language model contains the string search_formatted returned
\* and the query.
C22_UseContextFrame ==
    (last.op = "query_agent" /\ last.code # 503)
    => IF ~last.request.use_context
       THEN /\ last.code = 200
            /\ last.calls = <<>>
            /\ Len(last.sent) = 1
            /\ last.sent[1].prompt = last.request.query
            /\ last.body.retrieved_documents = <<>>
            /\ last.body.context_used = FALSE
       ELSE last.code = 200
            => /\ last.body.context_used = TRUE
               /\ [i \in 1..Len(last.calls) |-> last.calls[i].op]
                      = <<"search", "search_formatted">>
               /\ Len(last.sent) = 1
               /\ \/ last.sent[1].context = "No documents found matching the query."
                  \/ StartsWith(last.sent[1].context, "Retrieved Documents:\n")
               /\ Contains(last.sent[1].prompt, last.sent[1].context)
               /\ Contains(last.sent[1].prompt, last.request.query)

C22_Witness ==
    /\ last.op = "query_agent"
    /\ last.code = 200
    /\ last.request.use_context
    /\ last.request.n_results = 2
    /\ Len(last.body.retrieved_documents) = 2
    /\ Len(Blocks(last.sent[1].context)) = 2
    /\ Contains(last.sent[1].prompt, "\n[Document 2]\n")
    /\ Contains(last.sent[1].prompt, "User Question: " \o last.request.query)

\* C23: a failure of the language-model call never leaves _call_ollama as an
\* exception: a connection failure gives the text "Error: Unable to connect
\* to Ollama server. Make sure it's running.", any other failure a text that
\* starts with "Error calling Ollama: "; get_response still returns its whole
\* result and POST /query answers 200 when only the language model failed.
C23_LlmFailureIsText ==
    (/\ last.op = "query_agent"
     /\ last.code # 503
     /\ \A i \in 1..Len(last.calls) :
            last.calls[i].op \in {"search", "search_formatted"}
            => last.calls[i].status = "ok")
    => /\ last.code = 200
       /\ \A i \in 1..Len(last.calls) : last.calls[i].op # "_call_ollama"
       /\ DOMAIN last.body = {"query", "response", "retrieved_documents",
                              "context_used", "model"}
       /\ last.llm = "connection"
              => last.body.response
                     = "Error: Unable to connect to Ollama server. Make sure it's running."
       /\ last.llm = "other"
              => StartsWith(last.body.response, "Error calling Ollama: ")

C23_Witness ==
    /\ last.op = "query_agent"
    /\ last.code = 200
    /\ last.llm = "other"
    /\ last.request.use_context
    /\ Len(last.body.retrieved_documents) = 1
    /\ StartsWith(last.body.response, "Error calling Ollama: ")

\* the context renders exactly these documents, in this order
C24_Renders(context, documents) ==
    IF Len(documents) = 0
    THEN context = "No documents found matching the query."
    ELSE /\ Len(Blocks(context)) = Len(documents)
         /\ LinesAfter(context, "Content: ")
                = [i \in 1..Len(documents) |-> C10_Excerpt(documents[i])]

\* C24: for every get_response with use_context true the documents returned
\* in retrieved_documents are exactly the documents rendered, in the same
\* order, in the context put into the prompt, whatever add_documents and
\* delete_collection calls other clients of the collection make between the
\* two searches of get_response.
C24_RetrievedMatchesContext ==
    (/\ last.op = "get_response"
     /\ last.stage = "done"
     /\ last.status = "ok")
    => /\ C24_Renders(last.context, last.value.retrieved_documents)
       /\ Contains(last.prompt, last.context)

====
